---- MODULE Spec2Model ----
(***************************************************************************)
(* A model of the audio silence remover (src/server.js): the upload        *)
(* handler POST /api/trim-silence with its two external processes (ffprobe *)
(* and ffmpeg), the download handler GET /api/download/:filename, the two  *)
(* directories they share, the deferred cleanups, and the pure functions   *)
(* getAudioMetadata (bitrate resolution), removeSilence (codec and bitrate *)
(* selection) with its legacy variant, the size statistics of the 200      *)
(* response, and the line handler of detectSilence.                        *)
(***************************************************************************)
EXTENDS Integers, Sequences, FiniteSets, TLC

(***************************************************************************)
(* Bounds of the model.                                                    *)
(***************************************************************************)
\* upload requests
NumReq == 2
\* download requests
NumDl == 1
\* Date.now() ranges over 0..MaxTime (milliseconds, abstracted)
MaxTime == 1
\* Math.round(Math.random() * 1E9) ranges over 0..MaxRand
MaxRand == 1

Reqs == 1..NumReq
Dls == 1..NumDl
Times == 0..MaxTime
Rands == 0..MaxRand

(***************************************************************************)
(* JavaScript values.  A value is a record [t, n]: a number ("num", with   *)
(* its value in n), a non-empty string that is not a number ("str": the    *)
(* 'N/A' ffprobe prints for an unknown field), NaN, null, or undefined (a  *)
(* missing property).                                                      *)
(***************************************************************************)
Num(k) == [t |-> "num", n |-> k]
NA == [t |-> "str", n |-> 0]
NAN == [t |-> "NaN", n |-> 0]
NULL == [t |-> "null", n |-> 0]
UNDEF == [t |-> "undefined", n |-> 0]

\* JavaScript truthiness: 0, NaN, null and undefined are falsy; a non-empty
\* string and a non-zero number are truthy.
Truthy(v) == \/ v.t = "str"
             \/ (v.t = "num" /\ v.n # 0)

\* parseInt / parseFloat of a number give the number, of 'N/A' give NaN.
parseInt(v) == IF v.t = "num" THEN v ELSE NAN
parseFloat(v) == IF v.t = "num" THEN v ELSE NAN

Max(a, b) == IF a >= b THEN a ELSE b
Min(a, b) == IF a <= b THEN a ELSE b

(***************************************************************************)
(* File extensions are sequences of characters, so that toLowerCase is a   *)
(* computation.  An upload's extension is path.extname(file.originalname). *)
(***************************************************************************)
LowerChar(c) ==
  CASE c = "M" -> "m"
    [] c = "P" -> "p"
    [] c = "E" -> "e"
    [] c = "G" -> "g"
    [] c = "A" -> "a"
    [] c = "O" -> "o"
    [] c = "W" -> "w"
    [] c = "V" -> "v"
    [] c = "F" -> "f"
    [] c = "L" -> "l"
    [] c = "C" -> "c"
    [] OTHER -> c

toLowerCase(s) == [i \in DOMAIN s |-> LowerChar(s[i])]

ExtMp3 == <<".", "m", "p", "3">>
ExtMpeg == <<".", "m", "p", "e", "g">>
ExtM4a == <<".", "m", "4", "a">>
ExtMp4 == <<".", "m", "p", "4">>
ExtOgg == <<".", "o", "g", "g">>
ExtWav == <<".", "w", "a", "v">>
ExtFlac == <<".", "f", "l", "a", "c">>
ExtMP3Upper == <<".", "M", "P", "3">>
ExtOggMixed == <<".", "O", "g", "G">>
ExtWAVUpper == <<".", "W", "A", "V">>
ExtM4AUpper == <<".", "M", "4", "A">>
ExtNone == << >>

\* every extension the pure-function checks range over
AllExts == {ExtMp3, ExtMpeg, ExtM4a, ExtMp4, ExtOgg, ExtWav, ExtFlac,
            ExtMP3Upper, ExtOggMixed, ExtWAVUpper, ExtM4AUpper, ExtNone}

(***************************************************************************)
(* getAudioMetadata (server.js 52-94).  probe is what ffmpeg.ffprobe hands *)
(* to the callback: err, and metadata with the audio stream's bit_rate     *)
(* (hasAudio says whether streams holds one of codec_type 'audio') and     *)
(* format with bit_rate, size, duration.  Durations are in tenths of a     *)
(* second.  The result is a rejection or the resolved metadata; codec,     *)
(* sampleRate and channels are copied verbatim and nothing reads them, so  *)
(* the resolved record keeps the bitrate alone.                            *)
(***************************************************************************)
NoMetadata == [isNull |-> TRUE, bitrate |-> NULL]
Metadata(b) == [isNull |-> FALSE, bitrate |-> b]

Rejected(msg) == [ok |-> FALSE, message |-> msg, metadata |-> NoMetadata]
Resolved(b) == [ok |-> TRUE, message |-> "", metadata |-> Metadata(b)]

\* Math.floor((fileSizeBytes * 8) / durationSeconds), durationSeconds > 0
ComputedBitrate(fileSizeBytes, durationTenths) ==
  IF fileSizeBytes.t = "num"
    THEN Num((fileSizeBytes.n * 8 * 10) \div durationTenths.n)
    ELSE NAN

StreamBitrate(probe) ==
  IF Truthy(probe.stream_bit_rate) THEN parseInt(probe.stream_bit_rate) ELSE NULL

\* the container's bit rate tried first
FormatBitrateFirst(probe) ==
  IF probe.hasFormat /\ Truthy(probe.format_bit_rate)
    THEN parseInt(probe.format_bit_rate)
    ELSE StreamBitrate(probe)

FormatBitrate(probe) ==
  LET bitrate == StreamBitrate(probe)
  IN IF ~Truthy(bitrate) /\ probe.hasFormat /\ Truthy(probe.format_bit_rate)
       THEN parseInt(probe.format_bit_rate)
       ELSE bitrate

SizeDurationBitrate(probe) ==
  LET bitrate == FormatBitrate(probe)
  IN IF ~Truthy(bitrate) /\ probe.hasFormat /\ Truthy(probe.format_size)
          /\ Truthy(probe.format_duration)
       THEN LET fileSizeBytes == parseInt(probe.format_size)
                durationSeconds == parseFloat(probe.format_duration)
            IN IF durationSeconds.t = "num" /\ durationSeconds.n > 0
                 THEN ComputedBitrate(fileSizeBytes, durationSeconds)
                 ELSE bitrate
       ELSE bitrate

getAudioMetadata(probe) ==
  IF probe.err THEN Rejected("ffprobe failed")
  ELSE IF ~probe.hasAudio THEN Rejected("No audio stream found")
  ELSE Resolved(SizeDurationBitrate(probe))

(***************************************************************************)
(* removeSilence (server.js 131-195): the ffmpeg command it configures.    *)
(* bitrate is the argument of audioBitrate in kbps (NULL: audioBitrate is  *)
(* not called), profile the argument of -profile:a ("none": the option is  *)
(* not added).                                                             *)
(***************************************************************************)
Command(codec, bitrate, profile) ==
  [codec |-> codec, bitrate |-> bitrate, profile |-> profile]

\* the conversion to kbps without the minimum
targetBitrateNoMinimum(metadata) ==
  IF ~metadata.isNull /\ Truthy(metadata.bitrate)
    THEN Num(metadata.bitrate.n \div 1000)
    ELSE NULL

targetBitrate(metadata) ==
  IF ~metadata.isNull /\ Truthy(metadata.bitrate)
    THEN LET originalKbps == metadata.bitrate.n \div 1000
         IN Num(Max(32, originalKbps))
    ELSE NULL

\* the extension compared as it is written
removeSilenceCaseSensitive(outputExtRaw, metadata) ==
  LET outputExt == outputExtRaw
      target == targetBitrate(metadata)
  IN IF outputExt = ExtMp3 \/ outputExt = ExtMpeg
       THEN Command("libmp3lame", IF Truthy(target) THEN target ELSE Num(128), "none")
     ELSE IF outputExt = ExtM4a \/ outputExt = ExtMp4
       THEN Command("aac", IF Truthy(target) THEN target ELSE Num(96), "aac_low")
     ELSE IF outputExt = ExtOgg
       THEN Command("libvorbis",
                    IF Truthy(target) THEN Num(Min(target.n, 256)) ELSE NULL, "none")
     ELSE IF outputExt = ExtWav
       THEN Command("pcm_s16le", NULL, "none")
     ELSE Command("aac", IF Truthy(target) THEN target ELSE Num(96), "none")

removeSilence(outputExtRaw, metadata) ==
  LET outputExt == toLowerCase(outputExtRaw)
      target == targetBitrate(metadata)
  IN IF outputExt = ExtMp3 \/ outputExt = ExtMpeg
       THEN Command("libmp3lame", IF Truthy(target) THEN target ELSE Num(128), "none")
     ELSE IF outputExt = ExtM4a \/ outputExt = ExtMp4
       THEN Command("aac", IF Truthy(target) THEN target ELSE Num(96), "aac_low")
     ELSE IF outputExt = ExtOgg
       THEN Command("libvorbis",
                    IF Truthy(target) THEN Num(Min(target.n, 256)) ELSE NULL, "none")
     ELSE IF outputExt = ExtWav
       THEN Command("pcm_s16le", NULL, "none")
     ELSE Command("aac", IF Truthy(target) THEN target ELSE Num(96), "none")

(***************************************************************************)
(* The server.  Files are named as the code names them: an upload is       *)
(* stored as <Date.now()>-<random><ext> (the tuple <<t, x, ext>>), an      *)
(* output as trimmed-<Date.now()><ext> (the tuple <<t, ext>>).             *)
(***************************************************************************)
VARIABLES
  now,          \* Date.now()
  alive,        \* the node process is running (no uncaught exception yet)
  uploads,      \* the files of uploadsDir, by name
  output,       \* the files of outputDir: name -> [st, owner]
  pc,           \* each upload request's position
  inputPath,    \* req.file.path
  outputPath,   \* outputPath of the handler
  metadata,     \* metadata of the handler
  probeRunning, \* the request's ffprobe process is running
  ffmpeg,       \* the request's ffmpeg process: none, spawned, writing, exited
  nProbes,      \* ffprobe processes the request has started
  nTranscodes,  \* ffmpeg processes the request has started
  status,       \* HTTP status of the response sent (0: none yet)
  message,      \* error message of the response sent
  inputTimer,   \* the 5000 ms timer of the success path is pending
  dl,           \* each download request: [pc, file, served]
  fn            \* the call under study of the function specifications

vars == <<now, alive, uploads, output, pc, inputPath, outputPath, metadata,
          probeRunning, ffmpeg, nProbes, nTranscodes, status, message,
          inputTimer, dl, fn>>

\* the variables of the server
serverVars == <<now, alive, uploads, output, pc, inputPath, outputPath, metadata,
                probeRunning, ffmpeg, nProbes, nTranscodes, status, message,
                inputTimer, dl>>

\* extensions of the uploads of the request model
UploadExts == {ExtMp3, ExtOgg}

OutNames == Times \X UploadExts
NoPath == << >>

Absent == [st |-> "absent", owner |-> 0]
Exists(dir, name) == dir[name].st # "absent"

\* allowedMimes of the fileFilter
allowedMimes == {"audio/mpeg", "audio/mp3", "audio/wav", "audio/wave",
                 "audio/x-wav", "audio/mp4", "audio/m4a", "audio/ogg",
                 "audio/webm", "audio/flac", "audio/aac"}

\* limits.fileSize
fileSize == 104857600

\* the multipart bodies a client sends: no file, or a file with a MIME type,
\* a size in bytes and the extension of its original name
UploadBodies ==
  [attached : {FALSE}, mimetype : {""}, size : {0}, ext : {ExtNone}]
  \cup [attached : {TRUE},
        mimetype : {"audio/mpeg", "audio/ogg", "text/plain", "video/mp4"},
        size : {1000, fileSize + 1},
        ext : UploadExts]

\* what ffprobe reports for the stored upload in the request model
ProbeSamples ==
  { [err |-> TRUE, hasAudio |-> FALSE, stream_bit_rate |-> UNDEF, hasFormat |-> FALSE,
     format_bit_rate |-> UNDEF, format_size |-> UNDEF, format_duration |-> UNDEF],
    [err |-> FALSE, hasAudio |-> FALSE, stream_bit_rate |-> UNDEF, hasFormat |-> TRUE,
     format_bit_rate |-> Num(64000), format_size |-> Num(1000), format_duration |-> Num(10)],
    [err |-> FALSE, hasAudio |-> TRUE, stream_bit_rate |-> Num(192000), hasFormat |-> TRUE,
     format_bit_rate |-> Num(193000), format_size |-> Num(1000), format_duration |-> Num(10)],
    [err |-> FALSE, hasAudio |-> TRUE, stream_bit_rate |-> NA, hasFormat |-> TRUE,
     format_bit_rate |-> NA, format_size |-> Num(1000), format_duration |-> NA] }

IdleDl == [pc |-> "idle", file |-> NoPath, served |-> "none"]

\* no call under study: the server runs
FnOff == [stage |-> "off"]

ServerInit ==
  /\ now = 0
  /\ alive = TRUE
  /\ uploads = {}
  /\ output = [f \in OutNames |-> Absent]
  /\ pc = [r \in Reqs |-> "new"]
  /\ inputPath = [r \in Reqs |-> NoPath]
  /\ outputPath = [r \in Reqs |-> NoPath]
  /\ metadata = [r \in Reqs |-> NoMetadata]
  /\ probeRunning = [r \in Reqs |-> FALSE]
  /\ ffmpeg = [r \in Reqs |-> "none"]
  /\ nProbes = [r \in Reqs |-> 0]
  /\ nTranscodes = [r \in Reqs |-> 0]
  /\ status = [r \in Reqs |-> 0]
  /\ message = [r \in Reqs |-> ""]
  /\ inputTimer = [r \in Reqs |-> FALSE]
  /\ dl = [d \in Dls |-> IdleDl]

Init ==
  /\ ServerInit
  /\ fn = FnOff

\* Date.now() advances
Tick ==
  /\ alive
  /\ now < MaxTime
  /\ now' = now + 1
  /\ UNCHANGED <<alive, uploads, output, pc, inputPath, outputPath, metadata,
                 probeRunning, ffmpeg, nProbes, nTranscodes, status, message,
                 inputTimer, dl, fn>>

(***************************************************************************)
(* Requests carry the numbers of their arrival: request r arrives after    *)
(* request r - 1 has arrived, downloads likewise.                          *)
(*                                                                         *)
(* upload.single('audio') and the handler's first lines (server.js 24-49,  *)
(* 220-223).  A fileFilter error and a LIMIT_FILE_SIZE error go to next(), *)
(* and with no error-handling middleware registered Express's default      *)
(* handler answers: an Error without status or statusCode gives 500.  With *)
(* no file part the handler runs with req.file undefined and answers 400.  *)
(* multer removes what it stored of a rejected file, so a rejected upload  *)
(* leaves uploadsDir as it was.  An accepted file is stored under the name *)
(* storage.filename gives it, replacing a file of that name.               *)
(***************************************************************************)
\* the error upload.single hands to next(): the fileFilter's for a MIME type
\* outside the allow-list, LIMIT_FILE_SIZE for a file over limits.fileSize,
\* "" when the body passes
MulterError(body) ==
  IF body.attached /\ body.mimetype \notin allowedMimes
    THEN "Invalid file type. Only audio files are allowed."
  ELSE IF body.attached /\ body.size > fileSize THEN "File too large"
  ELSE ""

\* storage.filename: uniqueSuffix + path.extname(file.originalname)
StorageFilename(t, x, ext) == <<t, x, ext>>

Upload(r) ==
  /\ alive
  /\ pc[r] = "new"
  /\ r > 1 => pc[r - 1] # "new"
  /\ \E body \in UploadBodies :
       IF MulterError(body) # ""
         THEN \* next(err): the default error handler, the route handler never runs
              /\ pc' = [pc EXCEPT ![r] = "done"]
              /\ status' = [status EXCEPT ![r] = 500]
              /\ message' = [message EXCEPT ![r] = MulterError(body)]
              /\ UNCHANGED <<uploads, inputPath>>
       ELSE IF ~body.attached
         THEN \* if (!req.file) return res.status(400)
              /\ pc' = [pc EXCEPT ![r] = "done"]
              /\ status' = [status EXCEPT ![r] = 400]
              /\ message' = [message EXCEPT ![r] = "No audio file uploaded"]
              /\ UNCHANGED <<uploads, inputPath>>
       ELSE \E x \in Rands :
              /\ inputPath' = [inputPath EXCEPT ![r] = StorageFilename(now, x, body.ext)]
              /\ uploads' = uploads \cup {StorageFilename(now, x, body.ext)}
              /\ pc' = [pc EXCEPT ![r] = "stored"]
              /\ UNCHANGED <<status, message>>
  /\ UNCHANGED <<now, alive, output, outputPath, metadata, probeRunning, ffmpeg,
                 nProbes, nTranscodes, inputTimer, dl, fn>>

\* outputFilename: `trimmed-${Date.now()}${path.extname(req.file.originalname)}`
OutputFilename(t, ext) == <<t, ext>>

(***************************************************************************)
(* The handler up to its first await (server.js 225-235): the paths are    *)
(* computed and getAudioMetadata starts ffprobe.                           *)
(***************************************************************************)
\* getAudioMetadata called without await: removeSilence starts at once
HandlerStartNoAwait(r) ==
  /\ alive
  /\ pc[r] = "stored"
  /\ outputPath' = [outputPath EXCEPT ![r] = OutputFilename(now, inputPath[r][3])]
  /\ probeRunning' = [probeRunning EXCEPT ![r] = TRUE]
  /\ nProbes' = [nProbes EXCEPT ![r] = @ + 1]
  /\ ffmpeg' = [ffmpeg EXCEPT ![r] = "spawned"]
  /\ nTranscodes' = [nTranscodes EXCEPT ![r] = @ + 1]
  /\ pc' = [pc EXCEPT ![r] = "transcoding"]
  /\ UNCHANGED <<now, alive, uploads, output, inputPath, metadata, status, message,
                 inputTimer, dl, fn>>

HandlerStart(r) ==
  /\ alive
  /\ pc[r] = "stored"
  /\ outputPath' = [outputPath EXCEPT ![r] = OutputFilename(now, inputPath[r][3])]
  /\ probeRunning' = [probeRunning EXCEPT ![r] = TRUE]
  /\ nProbes' = [nProbes EXCEPT ![r] = @ + 1]
  /\ pc' = [pc EXCEPT ![r] = "probing"]
  /\ UNCHANGED <<now, alive, uploads, output, inputPath, metadata, ffmpeg,
                 nTranscodes, status, message, inputTimer, dl, fn>>

(***************************************************************************)
(* ffprobe calls back (server.js 54-94, 233-242): the probe's result or    *)
(* its failure is taken, and removeSilence starts ffmpeg.                  *)
(***************************************************************************)
\* metadata after the try/catch around getAudioMetadata
ProbedMetadata(probe) ==
  IF getAudioMetadata(probe).ok THEN getAudioMetadata(probe).metadata ELSE NoMetadata

ProbeDone(r) ==
  /\ alive
  /\ pc[r] = "probing"
  /\ probeRunning[r]
  /\ \E probe \in ProbeSamples :
       metadata' = [metadata EXCEPT ![r] = ProbedMetadata(probe)]
  /\ probeRunning' = [probeRunning EXCEPT ![r] = FALSE]
  /\ ffmpeg' = [ffmpeg EXCEPT ![r] = "spawned"]
  /\ nTranscodes' = [nTranscodes EXCEPT ![r] = @ + 1]
  /\ pc' = [pc EXCEPT ![r] = "transcoding"]
  /\ UNCHANGED <<now, alive, uploads, output, inputPath, outputPath, nProbes,
                 status, message, inputTimer, dl, fn>>

\* the ffmpeg command of request r
CommandOf(r) == removeSilence(outputPath[r][2], metadata[r])

(***************************************************************************)
(* The ffmpeg process of .save(outputPath) (server.js 197-215).  It opens  *)
(* its output file, creating or truncating it (-y), writes it, and ends    *)
(* with the 'end' or the 'error' event.  A file is partial while its       *)
(* writer runs, complete once its writer has ended, and corrupt when a     *)
(* second process opened it while the first was still writing it.  A       *)
(* process whose file was unlinked or reopened by another keeps writing    *)
(* the old inode, which changes nothing under the name.                    *)
(***************************************************************************)
Opened(out, r) ==
  LET f == out[outputPath[r]]
  IN [out EXCEPT ![outputPath[r]] =
        IF f.st = "partial" /\ f.owner # r /\ ffmpeg[f.owner] = "writing"
          THEN [st |-> "corrupt", owner |-> r]
          ELSE [st |-> "partial", owner |-> r]]

FfmpegOpen(r) ==
  /\ alive
  /\ ffmpeg[r] = "spawned"
  /\ ffmpeg' = [ffmpeg EXCEPT ![r] = "writing"]
  /\ output' = Opened(output, r)
  /\ UNCHANGED <<now, alive, uploads, pc, inputPath, outputPath, metadata,
                 probeRunning, nProbes, nTranscodes, status, message, inputTimer,
                 dl, fn>>

Finished(out, r) ==
  LET f == out[outputPath[r]]
  IN IF f.st = "partial" /\ f.owner = r
       THEN [out EXCEPT ![outputPath[r]] = [st |-> "complete", owner |-> r]]
       ELSE out

(***************************************************************************)
(* The catch block (server.js 271-286): both files are unlinked when they  *)
(* exist, then the 500 is sent.                                            *)
(***************************************************************************)
CatchUploads(r) == uploads \ {inputPath[r]}

\* a catch block that forgets the output
CatchOutputKept(out, r) == out

CatchOutput(out, r) == [out EXCEPT ![outputPath[r]] = Absent]

Catch(r, msg, out) ==
  /\ uploads' = CatchUploads(r)
  /\ output' = CatchOutput(out, r)
  /\ status' = [status EXCEPT ![r] = 500]
  /\ message' = [message EXCEPT ![r] = msg]
  /\ inputTimer' = inputTimer

(***************************************************************************)
(* The rest of the try block (server.js 244-269): the output must exist,   *)
(* both files are stat'ed, the 200 is sent and the input's deletion is     *)
(* scheduled.                                                              *)
(***************************************************************************)
Succeed(r, out) ==
  /\ output' = out
  /\ status' = [status EXCEPT ![r] = 200]
  /\ inputTimer' = [inputTimer EXCEPT ![r] = TRUE]
  /\ UNCHANGED <<uploads, message>>

AfterTranscode(r, out) ==
  IF ~Exists(out, outputPath[r])
    THEN Catch(r, "Output file was not created", out)
  ELSE IF inputPath[r] \notin uploads
    THEN Catch(r, "ENOENT: no such file or directory, stat", out)
  ELSE Succeed(r, out)

\* the 'end' event: removeSilence resolves and the handler runs on
FfmpegEnd(r) ==
  /\ alive
  /\ pc[r] = "transcoding"
  /\ ffmpeg[r] = "writing"
  /\ ffmpeg' = [ffmpeg EXCEPT ![r] = "exited"]
  /\ pc' = [pc EXCEPT ![r] = "done"]
  /\ AfterTranscode(r, Finished(output, r))
  /\ UNCHANGED <<now, alive, inputPath, outputPath, metadata, probeRunning,
                 nProbes, nTranscodes, dl, fn>>

\* the 'error' event: removeSilence rejects and the catch block runs
FfmpegError(r) ==
  /\ alive
  /\ pc[r] = "transcoding"
  /\ ffmpeg[r] \in {"spawned", "writing"}
  /\ ffmpeg' = [ffmpeg EXCEPT ![r] = "exited"]
  /\ pc' = [pc EXCEPT ![r] = "done"]
  /\ Catch(r, "ffmpeg exited with an error", output)
  /\ UNCHANGED <<now, alive, inputPath, outputPath, metadata, probeRunning,
                 nProbes, nTranscodes, dl, fn>>

(***************************************************************************)
(* The timer of the success path (server.js 267-269): unlinkSync of the    *)
(* input, unguarded.  On a missing file it throws outside any handler, an  *)
(* uncaught exception, and the process ends.                               *)
(***************************************************************************)
InputTimerFire(r) ==
  /\ alive
  /\ inputTimer[r]
  /\ inputTimer' = [inputTimer EXCEPT ![r] = FALSE]
  /\ IF inputPath[r] \in uploads
       THEN /\ uploads' = uploads \ {inputPath[r]}
            /\ alive' = alive
       ELSE /\ alive' = FALSE
            /\ uploads' = uploads
  /\ UNCHANGED <<now, output, pc, inputPath, outputPath, metadata, probeRunning,
                 ffmpeg, nProbes, nTranscodes, status, message, dl, fn>>

(***************************************************************************)
(* GET /api/download/:filename (server.js 290-311).                        *)
(***************************************************************************)
\* the handler: 404 when the file is missing, else res.download starts
\* streaming the file as it is now
Download(d) ==
  /\ alive
  /\ dl[d].pc = "idle"
  /\ d > 1 => dl[d - 1].pc # "idle"
  /\ \E filename \in OutNames :
       dl' = [dl EXCEPT ![d] =
                IF ~Exists(output, filename)
                  THEN [pc |-> "notfound", file |-> filename, served |-> "none"]
                  ELSE [pc |-> "streaming", file |-> filename,
                        served |-> output[filename].st]]
  /\ UNCHANGED <<now, alive, uploads, output, pc, inputPath, outputPath, metadata,
                 probeRunning, ffmpeg, nProbes, nTranscodes, status, message,
                 inputTimer, fn>>

\* the callback of res.download: on an error a 500, else the 1000 ms timer
DownloadDone(d) ==
  /\ alive
  /\ dl[d].pc = "streaming"
  /\ \E err \in BOOLEAN :
       dl' = [dl EXCEPT ![d].pc = IF err THEN "failed" ELSE "timer"]
  /\ UNCHANGED <<now, alive, uploads, output, pc, inputPath, outputPath, metadata,
                 probeRunning, ffmpeg, nProbes, nTranscodes, status, message,
                 inputTimer, fn>>

\* the timer: the file is unlinked when it exists
DownloadCleanup(d) ==
  /\ alive
  /\ dl[d].pc = "timer"
  /\ dl' = [dl EXCEPT ![d].pc = "cleaned"]
  /\ output' = [output EXCEPT ![dl[d].file] = Absent]
  /\ UNCHANGED <<now, alive, uploads, pc, inputPath, outputPath, metadata,
                 probeRunning, ffmpeg, nProbes, nTranscodes, status, message,
                 inputTimer, fn>>

Next ==
  \/ Tick
  \/ \E r \in Reqs : Upload(r)
  \/ \E r \in Reqs : HandlerStart(r)
  \/ \E r \in Reqs : ProbeDone(r)
  \/ \E r \in Reqs : FfmpegOpen(r)
  \/ \E r \in Reqs : FfmpegEnd(r)
  \/ \E r \in Reqs : FfmpegError(r)
  \/ \E r \in Reqs : InputTimerFire(r)
  \/ \E d \in Dls : Download(d)
  \/ \E d \in Dls : DownloadDone(d)
  \/ \E d \in Dls : DownloadCleanup(d)

Spec == Init /\ [][Next]_vars

(***************************************************************************)
(* Properties of the server.                                               *)
(***************************************************************************)
\* request r is being processed: its handler is between line 225 and its
\* response
Processing(r) == pc[r] \in {"probing", "transcoding"}

\* the handler of request r went past validation
Processed(r) == outputPath[r] # NoPath

\* C1: any two upload requests that are processed concurrently have different
\* output paths.
C1_OutputPathsDiffer ==
  \A r1, r2 \in Reqs :
    (r1 # r2 /\ Processing(r1) /\ Processing(r2)) => outputPath[r1] # outputPath[r2]

\* C2: a download that is answered with file content serves the complete
\* output of a transcode that has ended successfully, never a file a transcode
\* is still writing or one that two transcodes wrote.
C2_DownloadServesCompleteOutput ==
  \A d \in Dls : dl[d].served \in {"none", "complete"}

\* C3: when a request fails fatally after validation, then as the 500 is sent
\* no file exists at its output path and its input artifact is deleted.
C3_FatalFailureLeavesNoArtifact ==
  [][\A r \in Reqs :
       (Processed(r) /\ status[r] = 0 /\ status'[r] = 500)
         => (~Exists(output', outputPath[r]) /\ inputPath[r] \notin uploads')]_vars

\* two requests failed fatally, one on the transcode's error and one on the
\* missing output file
C3_Witness ==
  \E r1, r2 \in Reqs :
    /\ status[r1] = 500 /\ message[r1] = "ffmpeg exited with an error"
    /\ status[r2] = 500 /\ message[r2] = "Output file was not created"

\* C4: the input artifact of a request exists as long as the request's
\* transcode is running.
C4_InputKeptWhileTranscoding ==
  \A r \in Reqs : ffmpeg[r] \in {"spawned", "writing"} => inputPath[r] \in uploads

\* C5: a request whose probe failed goes on to the transcode with no
\* metadata and the default bitrate of its format (128 kbps for .mp3, none for
\* .ogg), and it ends with 200 unless the transcode failed or left no output
\* file.
C5_ProbeFailureNeverAborts ==
  \A r \in Reqs :
    /\ (Processed(r) /\ ~probeRunning[r] /\ metadata[r].isNull)
         => (nTranscodes[r] = 1
               /\ CommandOf(r).bitrate =
                    IF outputPath[r][2] = ExtMp3 THEN Num(128) ELSE NULL)
    /\ (pc[r] = "done" /\ nTranscodes[r] = 1 /\ metadata[r].isNull)
         => \/ status[r] = 200
            \/ message[r] \in {"ffmpeg exited with an error",
                               "Output file was not created"}

\* C6: a request past validation has started exactly one probe and at most one
\* transcode, the transcode only after the probe completed and never while it
\* runs, and the input's deletion is scheduled only once the 200 is sent.
C6_ProbeThenTranscodeThenCleanup ==
  \A r \in Reqs :
    /\ Processed(r) => nProbes[r] = 1
    /\ ~Processed(r) => (nProbes[r] = 0 /\ nTranscodes[r] = 0)
    /\ nTranscodes[r] <= 1
    /\ nTranscodes[r] = 1 => (nProbes[r] = 1 /\ ~probeRunning[r])
    /\ ffmpeg[r] \in {"spawned", "writing"} => ~probeRunning[r]
    /\ probeRunning[r] => ffmpeg[r] = "none"
    /\ inputTimer[r] => status[r] = 200

\* a request succeeded after one probe and one transcode, its timer pending
C6_Witness ==
  \E r \in Reqs :
    /\ status[r] = 200 /\ inputTimer[r]
    /\ nProbes[r] = 1 /\ nTranscodes[r] = 1

\* C7: every upload validation error is answered with 400, and neither the
\* probe nor the transcode is started for it.
C7_ValidationErrorsAnswered400 ==
  \A r \in Reqs :
    (pc[r] = "done" /\ ~Processed(r))
      => (status[r] = 400 /\ nProbes[r] = 0 /\ nTranscodes[r] = 0)

(***************************************************************************)
(* removeSilence on its own: one call, its arguments drawn from the        *)
(* extensions above and from every metadata value getAudioMetadata can     *)
(* hand over (none, or a bitrate that is null, NaN or a number of bits per *)
(* second).                                                                *)
(***************************************************************************)
\* bitrates range up to MaxKbps kbps
MaxKbps == 260

Bitrates == {k * 1000 + off : k \in 0..MaxKbps, off \in {0, 1, 999}}

MetadataArgs ==
  {NoMetadata, Metadata(NULL), Metadata(NAN)} \cup {Metadata(Num(b)) : b \in Bitrates}

InitCodec ==
  /\ ServerInit
  /\ fn \in {[stage |-> "args", outputExt |-> e, metadata |-> m] :
               e \in AllExts, m \in MetadataArgs}

Configure ==
  /\ fn.stage = "args"
  /\ fn' = [stage |-> "configured", outputExt |-> fn.outputExt,
            metadata |-> fn.metadata,
            target |-> targetBitrate(fn.metadata),
            command |-> removeSilence(fn.outputExt, fn.metadata)]
  /\ UNCHANGED serverVars

SpecCodec == InitCodec /\ [][Configure]_vars

\* the rows of the table, by the extensions as they are written
Mp3Exts == {ExtMp3, ExtMpeg, ExtMP3Upper}
AacExts == {ExtM4a, ExtMp4, ExtM4AUpper}
OggExts == {ExtOgg, ExtOggMixed}
WavExts == {ExtWav, ExtWAVUpper}
OtherExts == AllExts \ (Mp3Exts \cup AacExts \cup OggExts \cup WavExts)

\* the table's rows for the named extensions
TableRows ==
  LET e == fn.outputExt
      t == fn.target
      c == fn.command
      known == t # NULL
  IN /\ e \in Mp3Exts =>
          (c.codec = "libmp3lame" /\ c.bitrate = IF known THEN t ELSE Num(128))
     /\ e \in AacExts =>
          (c.codec = "aac" /\ c.profile = "aac_low"
             /\ c.bitrate = IF known THEN t ELSE Num(96))
     /\ e \in OggExts =>
          (c.codec = "libvorbis"
             /\ c.bitrate = IF known THEN Num(IF t.n <= 256 THEN t.n ELSE 256) ELSE NULL)
     /\ e \in WavExts => (c.codec = "pcm_s16le" /\ c.bitrate = NULL)
     /\ e \in OtherExts =>
          (c.codec = "aac" /\ c.bitrate = IF known THEN t ELSE Num(96))

\* C8: removeSilence configures the transcode per the table, and for any other
\* extension AAC with the AAC-LC profile.
C8_TableWithProfileForOthers ==
  fn.stage = "configured" =>
    /\ TableRows
    /\ fn.outputExt \in OtherExts => fn.command.profile = "aac_low"

\* C8 as amended: removeSilence configures the transcode per the table, the
\* profile option being set for .m4a/.mp4 alone: any other extension gets AAC
\* with no profile option.
C8_Table ==
  fn.stage = "configured" =>
    /\ TableRows
    /\ fn.command.profile = IF fn.outputExt \in AacExts THEN "aac_low" ELSE "none"

\* an extension outside the table was configured with a known bitrate
C8_Witness ==
  /\ fn.stage = "configured"
  /\ fn.outputExt = ExtFlac
  /\ fn.target # NULL
  /\ fn.command.codec = "aac"

\* the original bitrate is known: a positive number of bits per second
BitrateKnown(m) == ~m.isNull /\ m.bitrate.t = "num" /\ m.bitrate.n > 0

\* C9: when the original bitrate is known the target is
\* max(32, floor(bitrate / 1000)) kbps, and removeSilence uses it; the target
\* is unset exactly when the bitrate is not known (no metadata, or a bitrate
\* that is null, NaN or 0).
C9_TargetBitrate ==
  fn.stage = "configured" =>
    LET m == fn.metadata
        b == m.bitrate.n
        k == fn.target.n
    IN /\ BitrateKnown(m) =>
            /\ fn.target.t = "num"
            /\ k >= 32
            /\ b < 32000 => k = 32
            /\ b >= 32000 => (1000 * k <= b /\ b < 1000 * (k + 1))
            /\ fn.outputExt \in Mp3Exts => fn.command.bitrate = fn.target
       /\ m = Metadata(Num(256000)) => fn.target = Num(256)
       /\ ~BitrateKnown(m) <=> fn.target = NULL

\* a bitrate below 1000 bits per second was raised to 32 kbps
C9_Witness ==
  /\ fn.stage = "configured"
  /\ fn.metadata = Metadata(Num(999))
  /\ fn.target = Num(32)

(***************************************************************************)
(* getAudioMetadata on its own: one call, on what ffprobe can report.      *)
(* ffprobe prints a bit rate it knows as a positive number and one it does *)
(* not as N/A, so the bit rates are undefined, N/A or positive; a size or  *)
(* a duration is undefined, N/A or a number, the duration possibly 0.      *)
(***************************************************************************)
StreamRates == {UNDEF, NA, Num(48000), Num(128000)}
FormatRates == {UNDEF, NA, Num(64000), Num(129000)}
FormatSizes == {UNDEF, NA, Num(1), Num(1000), Num(4000000)}
FormatDurations == {UNDEF, NA, Num(0), Num(5), Num(10), Num(2505)}

ProbeArgs ==
  [err : BOOLEAN, hasAudio : BOOLEAN, stream_bit_rate : StreamRates,
   hasFormat : {TRUE}, format_bit_rate : FormatRates, format_size : FormatSizes,
   format_duration : FormatDurations]
  \cup
  [err : BOOLEAN, hasAudio : BOOLEAN, stream_bit_rate : StreamRates,
   hasFormat : {FALSE}, format_bit_rate : {UNDEF}, format_size : {UNDEF},
   format_duration : {UNDEF}]

InitProbe ==
  /\ ServerInit
  /\ fn \in {[stage |-> "args", probe |-> p] : p \in ProbeArgs}

Probe ==
  /\ fn.stage = "args"
  /\ fn' = [stage |-> "probed", probe |-> fn.probe,
            result |-> getAudioMetadata(fn.probe)]
  /\ UNCHANGED serverVars

SpecProbe == InitProbe /\ [][Probe]_vars

IsNum(v) == v.t = "num"

\* C10: for a probe result with an audio stream the call succeeds, and the
\* bitrate is the stream's when that is a number, else the container's when
\* that is a number, else floor(size * 8 / duration) when both are numbers and
\* the duration is positive, else unset (null, or NaN after an unparseable
\* field).
C10_BitratePriority ==
  (fn.stage = "probed" /\ ~fn.probe.err /\ fn.probe.hasAudio) =>
    LET p == fn.probe
        b == fn.result.metadata.bitrate
    IN /\ fn.result.ok
       /\ ~fn.result.metadata.isNull
       /\ IF IsNum(p.stream_bit_rate) THEN b = p.stream_bit_rate
          ELSE IF p.hasFormat /\ IsNum(p.format_bit_rate) THEN b = p.format_bit_rate
          ELSE IF p.hasFormat /\ IsNum(p.format_size) /\ IsNum(p.format_duration)
                  /\ p.format_duration.n > 0
            THEN /\ IsNum(b)
                 /\ b.n * p.format_duration.n <= p.format_size.n * 8 * 10
                 /\ p.format_size.n * 8 * 10 < (b.n + 1) * p.format_duration.n
          ELSE b \in {NULL, NAN}

\* neither bit rate was parseable and the bitrate was computed from the size
\* and the duration
C10_Witness ==
  /\ fn.stage = "probed"
  /\ fn.probe.hasAudio /\ ~fn.probe.err
  /\ fn.probe.stream_bit_rate = NA
  /\ fn.probe.format_bit_rate = NA
  /\ fn.probe.format_size = Num(4000000)
  /\ fn.probe.format_duration = Num(2505)
  /\ fn.result.metadata.bitrate = Num(127744)

(***************************************************************************)
(* Downloads and the cleanup of artifacts.                                 *)
(***************************************************************************)
\* C11: a download of a name under which no file exists is answered with 404
\* and changes no file; and a download requested for a name whose cleanup has
\* run (the error cleanup of a request with that output path, or the timer of
\* an earlier download of it) is answered with 404.
C11_DownloadAfterCleanupIs404 ==
  [][\A d \in Dls :
       (dl[d].pc = "idle" /\ dl'[d].pc # "idle")
         => /\ ~Exists(output, dl'[d].file)
                 => (dl'[d].pc = "notfound" /\ output' = output /\ uploads' = uploads)
            /\ (\/ \E r \in Reqs : status[r] = 500 /\ outputPath[r] = dl'[d].file
                \/ \E e \in Dls : dl[e].pc = "cleaned" /\ dl[e].file = dl'[d].file)
                 => dl'[d].pc = "notfound"]_vars

\* C12: a download that completed without error has its cleanup scheduled,
\* and the cleanup runs: the server is there to run it as long as it is
\* pending, and when it runs no file is left under the name.  The cleanup
\* of a download runs only after that download completed, and a download that
\* ended with an error never runs one.
C12_CompletedDownloadIsCleanedUp ==
  [][\A d \in Dls :
       /\ dl'[d].pc = "timer" => alive'
       /\ (dl[d].pc # "cleaned" /\ dl'[d].pc = "cleaned")
            => (dl[d].pc = "timer" /\ ~Exists(output', dl[d].file))
       /\ dl'[d].pc = "timer" => dl[d].pc \in {"streaming", "timer"}
       /\ dl[d].pc = "failed" => dl'[d].pc = "failed"]_vars

(***************************************************************************)
(* The statistics of the 200 response (server.js 249-264).                 *)
(*   reduction = ((originalSize - newSize) / originalSize * 100).toFixed(2)*)
(* toFixed(2) writes the sign of a negative number, then the hundredth     *)
(* nearest to its magnitude, the larger one of two equally near (decided   *)
(* in the code on the double the division produced), so a negative number  *)
(* that rounds to zero reads "-0.00".  Strings are tuples of characters.   *)
(***************************************************************************)
DigitChar(n) == <<"0", "1", "2", "3", "4", "5", "6", "7", "8", "9">>[n + 1]

RECURSIVE Digits(_)
Digits(n) == IF n < 10 THEN <<DigitChar(n)>>
             ELSE Digits(n \div 10) \o <<DigitChar(n % 10)>>

\* the hundredth nearest to a / b * 100 for a >= 0 and b > 0, by long division
Hundredths(a, b) ==
  LET p1 == ((a % b) * 100) \div b
      r1 == ((a % b) * 100) % b
      p2 == (r1 * 100) \div b
      r2 == (r1 * 100) % b
  IN ((a \div b) * 100 + p1) * 100 + p2 + (IF 2 * r2 >= b THEN 1 ELSE 0)

\* toFixed(2) of a number of sign neg and magnitude h hundredths
toFixed2(neg, h) ==
  (IF neg THEN <<"-">> ELSE << >>)
    \o Digits(h \div 100) \o <<".", DigitChar((h \div 10) % 10), DigitChar(h % 10)>>

\* a division by zero gives NaN for 0 / 0 and -Infinity for -newSize / 0
reduction(originalSize, newSize) ==
  IF originalSize = 0
    THEN IF newSize = 0 THEN <<"N", "a", "N">>
         ELSE <<"-", "I", "n", "f", "i", "n", "i", "t", "y">>
  ELSE IF newSize > originalSize
    THEN toFixed2(TRUE, Hundredths(newSize - originalSize, originalSize))
  ELSE toFixed2(FALSE, Hundredths(originalSize - newSize, originalSize))

\* sizeReduction: `${reduction}%`
sizeReduction(originalSize, newSize) == reduction(originalSize, newSize) \o <<"%">>

\* file sizes range over 0..MaxSize, and over two large ones
MaxSize == 12

SizePairs ==
  ((0..MaxSize) \X (0..MaxSize)) \cup ({750000, 1000000} \X {750000, 1000000})

InitStats ==
  /\ ServerInit
  /\ fn \in {[stage |-> "args", originalSize |-> p[1], newSize |-> p[2]] :
               p \in SizePairs}

\* lines 250-253 and 263 on the sizes the two statSync calls returned
Stats ==
  /\ fn.stage = "args"
  /\ fn' = [stage |-> "reported", originalSize |-> fn.originalSize,
            newSize |-> fn.newSize,
            sizeReduction |-> sizeReduction(fn.originalSize, fn.newSize)]
  /\ UNCHANGED serverVars

SpecStats == InitStats /\ [][Stats]_vars

\* the number of hundredths a string of toFixed(2) and "%" reads as, its sign
\* apart
RECURSIVE ReadDigits(_)
ReadDigits(s) ==
  IF s = << >> THEN 0
  ELSE IF s[Len(s)] \in {".", "%", "-"} THEN ReadDigits(SubSeq(s, 1, Len(s) - 1))
  ELSE 10 * ReadDigits(SubSeq(s, 1, Len(s) - 1))
         + (CHOOSE n \in 0..9 : DigitChar(n) = s[Len(s)])

\* the reported reduction is the percentage rounded to the nearest hundredth,
\* in the form d+.dd%, with a minus sign exactly when the output is larger
ReductionRounded ==
  (fn.stage = "reported" /\ fn.originalSize > 0)
    => LET s == fn.sizeReduction
           o == fn.originalSize
           n == fn.newSize
           h == ReadDigits(s)
           a == IF n > o THEN n - o ELSE o - n
       IN /\ s[Len(s)] = "%" /\ s[Len(s) - 3] = "."
          /\ (s[1] = "-") = (n > o)
          /\ (o <= MaxSize /\ n <= MaxSize)
               => (2 * (h * o - a * 10000) <= o /\ 2 * (a * 10000 - h * o) <= o)
          /\ (o = 1000000 /\ n = 750000) => s = <<"2", "5", ".", "0", "0", "%">>
          /\ (o = 3 /\ n = 4) => s = <<"-", "3", "3", ".", "3", "3", "%">>
          /\ (o = 8 /\ n = 7) => s = <<"1", "2", ".", "5", "0", "%">>

\* C13: a request answered with 200 reports the sizes of its own artifacts:
\* the file stat'ed at its output path is the complete output of its own
\* transcode.  (The rounding of the percentage is ReductionRounded.)
C13_StatsOfOwnArtifacts ==
  [][\A r \in Reqs :
       (status[r] = 0 /\ status'[r] = 200)
         => output'[outputPath[r]] = [st |-> "complete", owner |-> r]]_vars

(***************************************************************************)
(* The legacy removeSilence(inputPath, outputPath), which takes no         *)
(* metadata, beside the one of server.js: both are configured for the same *)
(* output path.                                                            *)
(***************************************************************************)
\* the argument of audioFilters, in both variants
audioFilters == <<"silenceremove=stop_periods=-1:stop_duration=0.5:stop_threshold=-30dB">>

audioFiltersLegacy == <<"silenceremove=stop_periods=-1:stop_duration=0.5:stop_threshold=-30dB">>

\* a legacy variant whose default is MP3
removeSilenceLegacyMp3Default(outputExtRaw) ==
  LET outputExt == toLowerCase(outputExtRaw)
  IN IF outputExt = ExtMp3 \/ outputExt = ExtMpeg
       THEN Command("libmp3lame", Num(192), "none")
     ELSE IF outputExt = ExtM4a \/ outputExt = ExtMp4
       THEN Command("aac", Num(192), "none")
     ELSE IF outputExt = ExtOgg THEN Command("libvorbis", NULL, "none")
     ELSE IF outputExt = ExtWav THEN Command("pcm_s16le", NULL, "none")
     ELSE Command("libmp3lame", Num(192), "none")

removeSilenceLegacy(outputExtRaw) ==
  LET outputExt == toLowerCase(outputExtRaw)
  IN IF outputExt = ExtMp3 \/ outputExt = ExtMpeg
       THEN Command("libmp3lame", Num(192), "none")
     ELSE IF outputExt = ExtM4a \/ outputExt = ExtMp4
       THEN Command("aac", Num(192), "none")
     ELSE IF outputExt = ExtOgg THEN Command("libvorbis", NULL, "none")
     ELSE IF outputExt = ExtWav THEN Command("pcm_s16le", NULL, "none")
     ELSE Command("aac", Num(192), "none")

ConfigureBoth ==
  /\ fn.stage = "args"
  /\ fn' = [stage |-> "both", outputExt |-> fn.outputExt, metadata |-> fn.metadata,
            command |-> removeSilence(fn.outputExt, fn.metadata),
            filters |-> audioFilters,
            legacy |-> removeSilenceLegacy(fn.outputExt),
            legacyFilters |-> audioFiltersLegacy]
  /\ UNCHANGED serverVars

SpecVariants == InitCodec /\ [][ConfigureBoth]_vars

\* C14: for every output extension and every metadata the legacy variant
\* selects the codec the metadata-aware variant selects, with the same
\* filter; its bitrate is 192 kbps for .mp3/.mpeg, .m4a/.mp4 and any other
\* extension and unset for .ogg and .wav, whatever the source, and it sets no
\* profile: the two commands differ in the bitrate and the profile at most.
C14_LegacySelectsSameCodec ==
  fn.stage = "both" =>
    /\ fn.legacy.codec = fn.command.codec
    /\ fn.legacyFilters = fn.filters
    /\ fn.legacy.bitrate =
         IF fn.outputExt \in OggExts \cup WavExts THEN NULL ELSE Num(192)
    /\ fn.legacy.profile = "none"
    /\ DOMAIN fn.legacy = DOMAIN fn.command

\* both variants chose AAC for an extension outside the table, the legacy one
\* at 192 kbps and the other at the source's 64 kbps
C14_Witness ==
  /\ fn.stage = "both"
  /\ fn.outputExt = ExtFlac
  /\ fn.metadata = Metadata(Num(64000))
  /\ fn.legacy = Command("aac", Num(192), "none")
  /\ fn.command = Command("aac", Num(64), "none")

\* C15: the output file of a request answered with 200 is removed by the
\* cleanup of a download of it that completed without error, and by no other
\* step: no upload request's handling removes it.
C15_OutputRemovedOnlyAfterDownload ==
  [][\A r \in Reqs :
       (status[r] = 200 /\ Exists(output, outputPath[r])
          /\ ~Exists(output', outputPath[r]))
         => \E d \in Dls : /\ dl[d].pc = "timer" /\ dl'[d].pc = "cleaned"
                           /\ dl[d].file = outputPath[r]]_vars

(***************************************************************************)
(* A burst of uploads: one upload more than in Spec, all of them arriving  *)
(* and handled within one value of Date.now(), and no download.  The       *)
(* handlers are the actions of Spec.                                       *)
(***************************************************************************)
BurstReqs == 1..(NumReq + 1)

InitBurst ==
  /\ now = 0
  /\ alive = TRUE
  /\ uploads = {}
  /\ output = [f \in OutNames |-> Absent]
  /\ pc = [r \in BurstReqs |-> "new"]
  /\ inputPath = [r \in BurstReqs |-> NoPath]
  /\ outputPath = [r \in BurstReqs |-> NoPath]
  /\ metadata = [r \in BurstReqs |-> NoMetadata]
  /\ probeRunning = [r \in BurstReqs |-> FALSE]
  /\ ffmpeg = [r \in BurstReqs |-> "none"]
  /\ nProbes = [r \in BurstReqs |-> 0]
  /\ nTranscodes = [r \in BurstReqs |-> 0]
  /\ status = [r \in BurstReqs |-> 0]
  /\ message = [r \in BurstReqs |-> ""]
  /\ inputTimer = [r \in BurstReqs |-> FALSE]
  /\ dl = << >>
  /\ fn = FnOff

NextBurst ==
  \/ \E r \in BurstReqs : Upload(r)
  \/ \E r \in BurstReqs : HandlerStart(r)
  \/ \E r \in BurstReqs : ProbeDone(r)
  \/ \E r \in BurstReqs : FfmpegOpen(r)
  \/ \E r \in BurstReqs : FfmpegEnd(r)
  \/ \E r \in BurstReqs : FfmpegError(r)
  \/ \E r \in BurstReqs : InputTimerFire(r)

SpecBurst == InitBurst /\ [][NextBurst]_vars

\* C16: the input file of an answered request gets deleted: a failed request's
\* is gone as the 500 is sent; a successful request's is there as the 200 is
\* sent, with its timer scheduled, and as long as it waits for the timer the
\* server is there to run it.
C16_AnsweredInputIsDeleted ==
  [][\A r \in DOMAIN pc :
       /\ (Processed(r) /\ status[r] = 0 /\ status'[r] = 500)
            => inputPath[r] \notin uploads'
       /\ (status[r] = 0 /\ status'[r] = 200)
            => (inputPath[r] \in uploads' /\ inputTimer'[r])
       /\ (status'[r] = 200 /\ inputTimer'[r] /\ inputPath[r] \in uploads')
            => alive']_vars

\* C17: an upload that passed validation gets one response, 200 or 500: a
\* response once sent is never followed by another, a handler ends with one
\* of the two, and as long as the response is outstanding the server is there
\* to send it.
C17_ExactlyOneResponse ==
  [][\A r \in DOMAIN pc :
       /\ status[r] # 0 => status'[r] = status[r]
       /\ (pc'[r] = "done" /\ inputPath[r] # NoPath) => status'[r] \in {200, 500}
       /\ pc'[r] \in {"probing", "transcoding"} => alive']_vars

(***************************************************************************)
(* detectSilence (server.js 97-128): the 'stderr' handler on the lines of  *)
(* ffmpeg's silencedetect filter, and the 'end' event.  A line is what it  *)
(* carries after "silence_start: " and after "silence_end: ": nothing, or  *)
(* a time in seconds, which the filter prints with its sign.  The patterns *)
(* /silence_start: ([\d.]+)/ and /silence_end: ([\d.]+)/ want a digit or a *)
(* dot right after the blank, so they do not match a time written with a   *)
(* minus sign.                                                             *)
(***************************************************************************)
\* lines received before the 'end' event
MaxLines == 3
\* times range over -MaxSec..MaxSec
MaxSec == 1

NoTime == [present |-> FALSE, neg |-> FALSE, n |-> 0]

\* the times of ends: none, or one written without a sign
EndTexts ==
  {NoTime} \cup {[present |-> TRUE, neg |-> FALSE, n |-> k] : k \in 0..MaxSec}

\* the times of starts: a silence at the very beginning of a stream whose
\* first timestamp is below zero starts at a negative time
StartTexts ==
  EndTexts \cup {[present |-> TRUE, neg |-> TRUE, n |-> k] : k \in 1..MaxSec}

StderrLines == [silence_start : StartTexts, silence_end : EndTexts]

\* stderrLine.match(/silence_start: ([\d.]+)/)
silenceStartMatch(stderrLine) ==
  stderrLine.silence_start.present /\ ~stderrLine.silence_start.neg

\* stderrLine.match(/silence_end: ([\d.]+)/)
silenceEndMatch(stderrLine) ==
  stderrLine.silence_end.present /\ ~stderrLine.silence_end.neg

NoSilence == [isNull |-> TRUE, start |-> 0]

InitDetect ==
  /\ ServerInit
  /\ fn = [stage |-> "listening", lines |-> << >>, silencePeriods |-> << >>,
           currentSilence |-> NoSilence]

\* currentSilence after the first if of the handler
Started(stderrLine, currentSilence) ==
  IF silenceStartMatch(stderrLine)
    THEN [isNull |-> FALSE, start |-> stderrLine.silence_start.n]
    ELSE currentSilence

\* the handler on one line
StderrHandler(stderrLine) ==
  LET cur == Started(stderrLine, fn.currentSilence)
  IN IF silenceEndMatch(stderrLine) /\ ~cur.isNull
       THEN [fn EXCEPT !.lines = Append(@, stderrLine),
                       !.silencePeriods =
                          Append(@, [start |-> cur.start,
                                     end |-> stderrLine.silence_end.n]),
                       !.currentSilence = NoSilence]
       ELSE [fn EXCEPT !.lines = Append(@, stderrLine), !.currentSilence = cur]

Stderr ==
  /\ fn.stage = "listening"
  /\ Len(fn.lines) < MaxLines
  /\ \E stderrLine \in StderrLines : fn' = StderrHandler(stderrLine)
  /\ UNCHANGED serverVars

\* 'end': resolve(silencePeriods)
DetectEnd ==
  /\ fn.stage = "listening"
  /\ fn' = [fn EXCEPT !.stage = "resolved"]
  /\ UNCHANGED serverVars

SpecDetect == InitDetect /\ [][Stderr \/ DetectEnd]_vars

\* the time a text reads as
TimeOf(text) == IF text.neg THEN 0 - text.n ELSE text.n

\* The periods of a sequence of lines, given which lines count as a start
\* and which as an end.  The end of line j closes a period when a start at
\* or before j has no end between it and j; the period's start is the last
\* start at or before j.  The periods come in the order of their ends.
Periods(lines, IsStart(_), IsEnd(_)) ==
  LET Closes(j) ==
        /\ IsEnd(lines[j])
        /\ \E s \in 1..j : /\ IsStart(lines[s])
                           /\ \A k \in s..(j - 1) : ~IsEnd(lines[k])
      LastStart(j) ==
        CHOOSE s \in 1..j : /\ IsStart(lines[s])
                            /\ \A k \in (s + 1)..j : ~IsStart(lines[k])
      closing == SelectSeq([j \in 1..Len(lines) |-> j], Closes)
  IN [i \in 1..Len(closing) |->
        [start |-> TimeOf(lines[LastStart(closing[i])].silence_start),
         end |-> TimeOf(lines[closing[i]].silence_end)]]

HasStart(stderrLine) == stderrLine.silence_start.present
HasEnd(stderrLine) == stderrLine.silence_end.present

\* C18: the resolved list is the list of the complete periods of the lines
\* received, in the order of their silence_end lines, each silence_end paired
\* with the last silence_start not yet consumed; an end with no pending start
\* and a start with no end after it add nothing.
C18_ResolvedPeriods ==
  fn.stage = "resolved" => fn.silencePeriods = Periods(fn.lines, HasStart, HasEnd)

\* the same of the lines the handler's patterns match: those whose times are
\* written without a sign
PeriodsOfMatchedLines ==
  fn.stage = "resolved"
    => fn.silencePeriods = Periods(fn.lines, silenceStartMatch, silenceEndMatch)

\* C19: when the 5000 ms timer of a successful request fires, the request's
\* input file exists, so the timer's unguarded unlinkSync never throws and the
\* server stays up.
C19_TimerFindsInput ==
  [][\A r \in DOMAIN pc :
       (inputTimer[r] /\ ~inputTimer'[r]) => (inputPath[r] \in uploads /\ alive')]_vars

====
